---- MODULE Spec2Model ----
(***************************************************************************)
(* Room lifecycle and turn state machine of the atlas game server          *)
(* (src/api/server.js).  One action per socket.io event handler.  JS       *)
(* strings are sequences of one-character strings; array indices are       *)
(* 0-based as in the source, so players[i] of the source is players[i+1].  *)
(***************************************************************************)
EXTENDS Integers, Sequences, FiniteSets, TLC

\* ---------------------------------------------------------------- bounds
\* players and history entries the room table holds at most, all rooms together
MaxEntries == 4

\* socket ids of the connections, and the room ids uuidv4() yields, in order
Conns == {1, 2, 3}
RoomIds == {1, 2}
FirstRoomId == 1
NoRoomId == 0

\* ------------------------------------------------------- string functions
Space == " "

Lower(ch) ==
  CASE ch = "A" -> "a"
    [] ch = "B" -> "b"
    [] OTHER -> ch

Upper(ch) ==
  CASE ch = "a" -> "A"
    [] ch = "b" -> "B"
    [] OTHER -> ch

toLowerCase(s) == [i \in 1..Len(s) |-> Lower(s[i])]

toUpperCase(s) == [i \in 1..Len(s) |-> Upper(s[i])]

\* String.prototype.charAt with a 0-based index: "" when out of range
charAt(s, i) == IF i >= 0 /\ i < Len(s) THEN <<s[i + 1]>> ELSE <<>>

RECURSIVE trimStart(_)
trimStart(s) ==
  IF s # <<>> /\ Head(s) = Space THEN trimStart(Tail(s)) ELSE s

RECURSIVE trimEnd(_)
trimEnd(s) ==
  IF s # <<>> /\ s[Len(s)] = Space THEN trimEnd(SubSeq(s, 1, Len(s) - 1)) ELSE s

trim(s) == trimEnd(trimStart(s))

\* str.split(' '): the pieces between single spaces, empty pieces included;
\* word is the piece being read
RECURSIVE splitFrom(_, _)
splitFrom(s, word) ==
  IF s = <<>> THEN <<word>>
  ELSE IF Head(s) = Space THEN <<word>> \o splitFrom(Tail(s), <<>>)
  ELSE splitFrom(Tail(s), Append(word, Head(s)))

split(s) == splitFrom(s, <<>>)

\* words.slice(0, 2)
slice2(words) == SubSeq(words, 1, IF Len(words) < 2 THEN Len(words) ELSE 2)

\* words.join(' ')
RECURSIVE join(_)
join(words) ==
  IF words = <<>> THEN <<>>
  ELSE IF Len(words) = 1 THEN words[1]
  ELSE words[1] \o <<Space>> \o join(Tail(words))

getFirstWords(str) == toLowerCase(join(slice2(split(str))))

\* ------------------------------------------- country-state-city data set
Countries == { <<"A", "b">> }
States == { <<"B", "a">> }
Cities == { <<"A", "a", " ", "b", "b">> }

isValidPlace(placeName) ==
  LET normalizedName == toLowerCase(trim(placeName))
      wanted == getFirstWords(normalizedName)
  IN \/ \E country \in Countries : getFirstWords(country) = wanted
     \/ \E state \in States : getFirstWords(state) = wanted
     \/ \E city \in Cities : getFirstWords(city) = wanted

\* ------------------------------------------------------- client inputs
PlaceInputs ==
  { <<"A", "b">>,
    <<" ", "a", "B", " ">>,
    <<"A", "a", " ", "b", "b", " ", "a">>,
    <<"B", "b">> }

Usernames == { "ann" }

Timestamps == { 1 }

\* ------------------------------------------------------------------ state
VARIABLES
  gameRooms,   \* the room table: room id -> room
  nextRoomId,  \* the next identifier uuidv4().substring(0, 6) yields
  sockets,     \* per connection: connected?, socket.roomId
  rosterLog,   \* per room in the table: roster changed since its first accepted
               \* place, a player removed since its creation
  lastRemoval, \* what the last handler removed from a players list
  emitted      \* the messages the last handler sent

vars == <<gameRooms, nextRoomId, sockets, rosterLog, lastRemoval, emitted>>

\* what the last disconnect removed: the index found and the turn index before
NoRemoval == [playerIndex |-> -1, turn |-> -1]

Removal(playerIndex, turn) == [playerIndex |-> playerIndex, turn |-> turn]

\* callback({ roomId, success, message, roomData }) to the requesting socket
Ack(id, success, message, roomId, snapshot) ==
  [kind |-> "ack", to |-> id, event |-> "callback", success |-> success,
   text |-> message, roomId |-> roomId, room |-> snapshot]

\* socket.emit('error', text)
Error(id, text) ==
  [kind |-> "socket", to |-> id, event |-> "error", success |-> FALSE,
   text |-> text, roomId |-> NoRoomId, room |-> <<>>]

\* io.to(roomId).emit(event, room)
Broadcast(roomId, event, snapshot) ==
  [kind |-> "room", to |-> roomId, event |-> event, success |-> TRUE,
   text |-> <<>>, roomId |-> roomId, room |-> snapshot]

\* ------------------------------------------------------------- the rooms
newRoom ==
  [players |-> <<>>, history |-> <<>>, currentPlayerIndex |-> 0,
   letterInPlay |-> <<>>, started |-> FALSE]

newPlayer(id, username) == [id |-> id, username |-> username, score |-> 0]

\* gameRooms[roomId] = value
setRoom(rooms, roomId, value) ==
  [r \in (DOMAIN rooms) \cup {roomId} |-> IF r = roomId THEN value ELSE rooms[r]]

\* delete gameRooms[roomId]
deleteRoom(rooms, roomId) == [r \in (DOMAIN rooms) \ {roomId} |-> rooms[r]]

createGameRoom(rooms, roomId) == setRoom(rooms, roomId, newRoom)

\* room.players.push({ id, username, score: 0 })
pushPlayer(room, id, username) ==
  [room EXCEPT !.players = Append(@, newPlayer(id, username))]

\* players.findIndex(player => player.id === id), 0-based, -1 when absent
findIndex(players, id) ==
  IF \E i \in 1..Len(players) : players[i].id = id
  THEN (CHOOSE i \in 1..Len(players) :
          players[i].id = id /\ \A j \in 1..(i - 1) : players[j].id # id) - 1
  ELSE -1

\* players.splice(playerIndex, 1) with a 0-based index
splice(players, playerIndex) ==
  SubSeq(players, 1, playerIndex) \o SubSeq(players, playerIndex + 2, Len(players))

\* all player entries and all history entries of the room table
RECURSIVE total(_, _, _)
total(rooms, ids, field) ==
  IF ids = {} THEN 0
  ELSE LET r == CHOOSE x \in ids : TRUE
       IN Len(rooms[r][field]) + total(rooms, ids \ {r}, field)

totalPlayers == total(gameRooms, DOMAIN gameRooms, "players")

totalHistory == total(gameRooms, DOMAIN gameRooms, "history")

NoLog == [changedInPlay |-> FALSE, removed |-> FALSE]

Init ==
  /\ gameRooms = <<>>
  /\ nextRoomId = FirstRoomId
  /\ sockets = [c \in Conns |-> [open |-> TRUE, roomId |-> NoRoomId]]
  /\ rosterLog = <<>>
  /\ lastRemoval = NoRemoval
  /\ emitted = <<>>

\* socket.on('createRoom')
createRoom(c, username) ==
  /\ sockets[c].open
  /\ nextRoomId \in RoomIds
  /\ totalPlayers + totalHistory < MaxEntries
  /\ LET roomId == nextRoomId
         room == pushPlayer(createGameRoom(gameRooms, roomId)[roomId], c, username)
     IN /\ gameRooms' = setRoom(gameRooms, roomId, room)
        /\ nextRoomId' = nextRoomId + 1
        /\ sockets' = [sockets EXCEPT ![c].roomId = roomId]
        /\ rosterLog' = setRoom(rosterLog, roomId, NoLog)
        /\ lastRemoval' = NoRemoval
        /\ emitted' = << Ack(c, TRUE, <<>>, roomId, <<>>),
                         Broadcast(roomId, "updateRoom", <<room>>) >>

\* joinRoom without the check of started
joinCheckOpen(rooms, roomId) ==
  IF roomId \notin DOMAIN rooms THEN "Room not found" ELSE "ok"

\* the checks of joinRoom, in the order of the source
joinCheck(rooms, roomId) ==
  IF roomId \notin DOMAIN rooms THEN "Room not found"
  ELSE IF rooms[roomId].started THEN "Game already started"
  ELSE "ok"

\* joinRoom binding socket.roomId before its checks
joinSocketEager(sock, rooms, roomId) == [sock EXCEPT !.roomId = roomId]

\* socket.roomId after joinRoom
joinSocket(sock, rooms, roomId) ==
  IF joinCheck(rooms, roomId) = "ok" THEN [sock EXCEPT !.roomId = roomId] ELSE sock

\* the room table after joinRoom
joinRooms(rooms, roomId, id, username) ==
  IF joinCheck(rooms, roomId) = "ok"
  THEN setRoom(rooms, roomId, pushPlayer(rooms[roomId], id, username))
  ELSE rooms

\* socket.on('joinRoom')
joinRoom(c, roomId, username) ==
  /\ sockets[c].open
  /\ LET check == joinCheck(gameRooms, roomId)
     IN /\ check = "ok" => totalPlayers + totalHistory < MaxEntries
        /\ gameRooms' = joinRooms(gameRooms, roomId, c, username)
        /\ sockets' = [sockets EXCEPT ![c] = joinSocket(@, gameRooms, roomId)]
        /\ rosterLog' =
             IF check = "ok" /\ gameRooms[roomId].history # <<>>
             THEN [rosterLog EXCEPT ![roomId].changedInPlay = TRUE]
             ELSE rosterLog
        /\ lastRemoval' = NoRemoval
        /\ emitted' =
             IF check = "ok"
             THEN << Ack(c, TRUE, <<>>, NoRoomId, <<gameRooms'[roomId]>>),
                     Broadcast(roomId, "updateRoom", <<gameRooms'[roomId]>>) >>
             ELSE << Ack(c, FALSE, <<check>>, NoRoomId, <<>>) >>
        /\ UNCHANGED nextRoomId

\* the room after startGame
startRoom(room) == [room EXCEPT !.started = TRUE, !.letterInPlay = <<>>]

\* const roomId = socket.roomId; if (!roomId || !gameRooms[roomId]) return;
resolves(sock, rooms) == sock.roomId # NoRoomId /\ sock.roomId \in DOMAIN rooms

\* socket.on('startGame')
startGame(c) ==
  /\ sockets[c].open
  /\ LET roomId == sockets[c].roomId
     IN IF ~resolves(sockets[c], gameRooms)
        THEN /\ lastRemoval' = NoRemoval
             /\ emitted' = <<>>
             /\ UNCHANGED <<gameRooms, nextRoomId, sockets, rosterLog>>
        ELSE /\ gameRooms' = setRoom(gameRooms, roomId, startRoom(gameRooms[roomId]))
             /\ lastRemoval' = NoRemoval
             /\ emitted' = << Broadcast(roomId, "gameStarted", <<gameRooms'[roomId]>>) >>
             /\ UNCHANGED <<nextRoomId, sockets, rosterLog>>

\* the duplicate check comparing the places as written
alreadyUsedExact(history, placeName) ==
  \E k \in 1..Len(history) : history[k].place = placeName

\* room.history.some(entry => entry.place.toLowerCase() === placeName.toLowerCase())
alreadyUsed(history, placeName) ==
  \E k \in 1..Len(history) :
    toLowerCase(history[k].place) = toLowerCase(placeName)

\* room.letterInPlay && placeName.charAt(0).toLowerCase() !== room.letterInPlay.toLowerCase()
wrongLetter(letterInPlay, placeName) ==
  /\ letterInPlay # <<>>
  /\ toLowerCase(charAt(placeName, 0)) # toLowerCase(letterInPlay)

\* the last character as written, not uppercased
lastLetterRaw(placeName) == charAt(placeName, Len(placeName) - 1)

\* placeName.charAt(placeName.length - 1).toUpperCase()
lastLetter(placeName) == toUpperCase(charAt(placeName, Len(placeName) - 1))

\* submitPlace without the check of the turn
submitCheckAnyTurn(room, id, placeName) ==
  LET trimmed == trim(placeName)
  IN IF room.currentPlayerIndex >= Len(room.players) THEN "TypeError"
     ELSE IF ~isValidPlace(trimmed) THEN "Invalid place name"
     ELSE IF wrongLetter(room.letterInPlay, trimmed) THEN "Place name must start with"
     ELSE IF alreadyUsed(room.history, trimmed) THEN "This place has already been used"
     ELSE "ok"

\* submitPlace validating the place before looking at the turn
submitCheckValidFirst(room, id, placeName) ==
  LET trimmed == trim(placeName)
  IN IF room.currentPlayerIndex >= Len(room.players) THEN "TypeError"
     ELSE IF ~isValidPlace(trimmed) THEN "Invalid place name"
     ELSE IF room.players[room.currentPlayerIndex + 1].id # id THEN "Not your turn"
     ELSE IF wrongLetter(room.letterInPlay, trimmed) THEN "Place name must start with"
     ELSE IF alreadyUsed(room.history, trimmed) THEN "This place has already been used"
     ELSE "ok"

\* the checks of submitPlace on a resolved room, in the order of the source;
\* reading .id of an undefined current player throws a TypeError
submitCheck(room, id, placeName) ==
  LET trimmed == trim(placeName)
  IN IF room.currentPlayerIndex >= Len(room.players) THEN "TypeError"
     ELSE IF room.players[room.currentPlayerIndex + 1].id # id THEN "Not your turn"
     ELSE IF ~isValidPlace(trimmed) THEN "Invalid place name"
     ELSE IF wrongLetter(room.letterInPlay, trimmed) THEN "Place name must start with"
     ELSE IF alreadyUsed(room.history, trimmed) THEN "This place has already been used"
     ELSE "ok"

\* the turn advanced without the modulo
nextTurnNoWrap(currentPlayerIndex, length) == currentPlayerIndex + 1

\* room.currentPlayerIndex = (room.currentPlayerIndex + 1) % room.players.length
nextTurn(currentPlayerIndex, length) == (currentPlayerIndex + 1) % length

\* the point given after the turn has advanced, to the next player
acceptPlaceScoreNext(room, placeName, timestamp) ==
  LET currentPlayer == room.players[room.currentPlayerIndex + 1]
      next == nextTurn(room.currentPlayerIndex, Len(room.players))
  IN [room EXCEPT
        !.letterInPlay = lastLetter(placeName),
        !.history = Append(@, [player |-> currentPlayer.username,
                               place |-> placeName,
                               timestamp |-> timestamp]),
        !.players[next + 1].score = @ + 1,
        !.currentPlayerIndex = next]

\* the updates of an accepted submission; placeName is already trimmed
acceptPlace(room, placeName, timestamp) ==
  LET currentPlayer == room.players[room.currentPlayerIndex + 1]
  IN [room EXCEPT
        !.letterInPlay = lastLetter(placeName),
        !.history = Append(@, [player |-> currentPlayer.username,
                               place |-> placeName,
                               timestamp |-> timestamp]),
        !.players[room.currentPlayerIndex + 1].score = @ + 1,
        !.currentPlayerIndex = nextTurn(@, Len(room.players))]

\* the room after submitPlace
submitRoom(room, id, placeName, timestamp) ==
  IF submitCheck(room, id, placeName) = "ok"
  THEN acceptPlace(room, trim(placeName), timestamp)
  ELSE room

\* the text of socket.emit('error', ...) for a failed check
errorText(check, room) ==
  IF check = "Place name must start with"
  THEN <<"Place name must start with '">> \o room.letterInPlay \o <<"'">>
  ELSE <<check>>

\* the error of a rejected submission sent to every socket of the room
submitEmitsToRoom(check, id, roomId, room, after) ==
  IF check = "ok" THEN << Broadcast(roomId, "updateGame", <<after>>) >>
  ELSE IF check = "TypeError" THEN <<>>
  ELSE << [Error(id, errorText(check, room)) EXCEPT !.kind = "room", !.to = roomId] >>

\* the messages of submitPlace: io.to(roomId).emit('updateGame', room) when
\* the submission is accepted, socket.emit('error', ...) when a check fails,
\* nothing when the handler throws
submitEmits(check, id, roomId, room, after) ==
  IF check = "ok" THEN << Broadcast(roomId, "updateGame", <<after>>) >>
  ELSE IF check = "TypeError" THEN <<>>
  ELSE << Error(id, errorText(check, room)) >>

\* socket.on('submitPlace')
submitPlace(c, placeName, timestamp) ==
  /\ sockets[c].open
  /\ LET roomId == sockets[c].roomId
     IN IF ~resolves(sockets[c], gameRooms)
        THEN /\ lastRemoval' = NoRemoval
             /\ emitted' = <<>>
             /\ UNCHANGED <<gameRooms, nextRoomId, sockets, rosterLog>>
        ELSE LET room == gameRooms[roomId]
                 check == submitCheck(room, c, placeName)
             IN /\ check = "ok" => totalPlayers + totalHistory < MaxEntries
                /\ gameRooms' =
                     setRoom(gameRooms, roomId, submitRoom(room, c, placeName, timestamp))
                /\ lastRemoval' = NoRemoval
                /\ emitted' = submitEmits(check, c, roomId, room, gameRooms'[roomId])
                /\ UNCHANGED <<nextRoomId, sockets, rosterLog>>

\* the repair never decrementing
repairIndexNever(playerIndex, currentPlayerIndex) == currentPlayerIndex

\* the repair decrementing whatever the removed index
repairIndexAlways(playerIndex, currentPlayerIndex) ==
  IF currentPlayerIndex > 0 THEN currentPlayerIndex - 1 ELSE currentPlayerIndex

\* if (playerIndex <= room.currentPlayerIndex && room.currentPlayerIndex > 0)
\*   room.currentPlayerIndex--
repairIndex(playerIndex, currentPlayerIndex) ==
  IF playerIndex <= currentPlayerIndex /\ currentPlayerIndex > 0
  THEN currentPlayerIndex - 1
  ELSE currentPlayerIndex

\* the room after the player at playerIndex has been spliced out
removePlayer(room, playerIndex) ==
  [room EXCEPT !.players = splice(@, playerIndex),
               !.currentPlayerIndex = repairIndex(playerIndex, @)]

\* socket.on('disconnect')
disconnect(c) ==
  /\ sockets[c].open
  /\ sockets' = [sockets EXCEPT ![c] = [open |-> FALSE, roomId |-> NoRoomId]]
  /\ UNCHANGED nextRoomId
  /\ LET roomId == sockets[c].roomId
     IN IF ~resolves(sockets[c], gameRooms)
        THEN /\ lastRemoval' = NoRemoval
             /\ emitted' = <<>>
             /\ UNCHANGED <<gameRooms, rosterLog>>
        ELSE LET room == gameRooms[roomId]
                 playerIndex == findIndex(room.players, c)
                 after == removePlayer(room, playerIndex)
             IN /\ lastRemoval' = Removal(playerIndex, room.currentPlayerIndex)
                /\ IF playerIndex = -1
                   THEN /\ emitted' = <<>>
                        /\ UNCHANGED <<gameRooms, rosterLog>>
                   ELSE IF Len(after.players) = 0
                   THEN /\ gameRooms' = deleteRoom(gameRooms, roomId)
                        /\ rosterLog' = deleteRoom(rosterLog, roomId)
                        /\ emitted' = <<>>
                   ELSE /\ gameRooms' = setRoom(gameRooms, roomId, after)
                        /\ rosterLog' =
                             [rosterLog EXCEPT
                                ![roomId].changedInPlay = @ \/ room.history # <<>>,
                                ![roomId].removed = TRUE]
                        /\ emitted' = << Broadcast(roomId, "playerLeft", <<after>>) >>

\* every handler, every connection, every input
Next ==
  \/ \E c \in Conns, u \in Usernames : createRoom(c, u)
  \/ \E c \in Conns, r \in RoomIds, u \in Usernames : joinRoom(c, r, u)
  \/ \E c \in Conns : startGame(c)
  \/ \E c \in Conns, p \in PlaceInputs, t \in Timestamps : submitPlace(c, p, t)
  \/ \E c \in Conns : disconnect(c)

\* the game of the first room: createRoom is handled once
NextGame ==
  \/ \E c \in Conns, u \in Usernames : nextRoomId = FirstRoomId /\ createRoom(c, u)
  \/ \E c \in Conns, r \in RoomIds, u \in Usernames : joinRoom(c, r, u)
  \/ \E c \in Conns : startGame(c)
  \/ \E c \in Conns, p \in PlaceInputs, t \in Timestamps : submitPlace(c, p, t)
  \/ \E c \in Conns : disconnect(c)

\* rooms and memberships only: no submission is handled
NextRooms ==
  \/ \E c \in Conns, u \in Usernames : createRoom(c, u)
  \/ \E c \in Conns, r \in RoomIds, u \in Usernames : joinRoom(c, r, u)
  \/ \E c \in Conns : startGame(c)
  \/ \E c \in Conns : disconnect(c)

Spec == Init /\ [][Next]_vars

SpecGame == Init /\ [][NextGame]_vars

SpecRooms == Init /\ [][NextRooms]_vars

\* ----------------------------------------------------------------- claims
Rooms == DOMAIN gameRooms

\* the texts of the error messages and failed acknowledgements
NotYourTurn == <<"Not your turn">>
InvalidPlace == <<"Invalid place name">>
AlreadyUsed == <<"This place has already been used">>
RoomNotFound == <<"Room not found">>
GameAlreadyStarted == <<"Game already started">>
WrongLetter(letter) == <<"Place name must start with '">> \o letter \o <<"'">>

\* the last handler rejected a submission of c / a join of c
RejectedSubmit(msgs, c) ==
  /\ Len(msgs) = 1
  /\ msgs[1].kind = "socket" /\ msgs[1].event = "error" /\ msgs[1].to = c

RejectedJoin(msgs, c) ==
  /\ Len(msgs) = 1
  /\ msgs[1].kind = "ack" /\ ~msgs[1].success /\ msgs[1].to = c

\* the last handler accepted a submission in room r
AcceptedSubmit(msgs, r) ==
  /\ Len(msgs) = 1
  /\ msgs[1].kind = "room" /\ msgs[1].event = "updateGame" /\ msgs[1].to = r

\* C1: in every reachable state, every room of the table with a non-empty
\* players list has 0 <= currentPlayerIndex < len(players).
TurnIndexValid ==
  \A r \in Rooms :
    gameRooms[r].players # <<>> =>
      /\ 0 <= gameRooms[r].currentPlayerIndex
      /\ gameRooms[r].currentPlayerIndex < Len(gameRooms[r].players)

\* a disconnect has just removed a player at or below a positive turn index,
\* and the repaired index points at the last of the remaining players
TurnIndexRepaired ==
  \E r \in Rooms :
    /\ lastRemoval.playerIndex >= 0
    /\ lastRemoval.turn > 0
    /\ lastRemoval.playerIndex <= lastRemoval.turn
    /\ Len(emitted) = 1 /\ emitted[1].event = "playerLeft" /\ emitted[1].to = r
    /\ gameRooms[r].currentPlayerIndex = Len(gameRooms[r].players) - 1

\* C2: in every reachable state, no room's history holds two entries whose
\* places are equal when compared case-insensitively.
HistoryPlacesDistinct ==
  \A r \in Rooms :
    \A i, j \in 1..Len(gameRooms[r].history) :
      i # j =>
        toLowerCase(gameRooms[r].history[i].place)
          # toLowerCase(gameRooms[r].history[j].place)

\* a submission repeating a history entry has just been rejected as already
\* used, in a room whose history holds two places
DuplicateRejected ==
  \E r \in Rooms, c \in Conns :
    /\ sockets[c].roomId = r
    /\ emitted = << Error(c, AlreadyUsed) >>
    /\ Len(gameRooms[r].history) = 2

\* C3: for every pair of consecutive history entries of a room, the first
\* character of the later place equals, case-insensitively, the last
\* character of the earlier place.
WordChainHolds ==
  \A r \in Rooms :
    \A k \in 1..(Len(gameRooms[r].history) - 1) :
      LET earlier == gameRooms[r].history[k].place
          later == gameRooms[r].history[k + 1].place
      IN Lower(later[1]) = Lower(earlier[Len(earlier)])

\* the input place p without its surrounding spaces is t
IsTrimOf(t, p) ==
  \E i \in 1..(Len(p) + 1), j \in 0..Len(p) :
    /\ t = SubSeq(p, i, j)
    /\ \A k \in 1..(i - 1) : p[k] = Space
    /\ \A k \in (j + 1)..Len(p) : p[k] = Space
    /\ t # <<>> => (t[1] # Space /\ t[Len(t)] # Space)

\* C4: immediately after every accepted submitPlace, the room's letterInPlay
\* is the uppercased last character of the trimmed submitted place name, and
\* that trimmed name is the place of the last history entry.
LetterAfterAccept ==
  [][ \A c \in Conns, p \in PlaceInputs, t \in Timestamps :
        LET r == sockets[c].roomId
        IN (AcceptedSubmit(emitted', r) /\ submitPlace(c, p, t)) =>
             LET history == gameRooms'[r].history
                 place == history[Len(history)].place
             IN /\ Len(history) = Len(gameRooms[r].history) + 1
                /\ IsTrimOf(place, p)
                /\ gameRooms'[r].letterInPlay = <<Upper(place[Len(place)])>>
    ]_vars

\* a submission ending in a lowercase letter has just been accepted and the
\* letter in play is its uppercase form
LetterUppercased ==
  \E r \in Rooms :
    /\ AcceptedSubmit(emitted, r)
    /\ LET history == gameRooms[r].history
           place == history[Len(history)].place
       IN /\ place[Len(place)] = "a"
          /\ gameRooms[r].letterInPlay = <<"A">>

\* C5: a rejected submitPlace (not your turn, invalid place, wrong letter,
\* already used) and a rejected joinRoom (room not found, game already
\* started) leave the room table and every connection's bound room unchanged.
RejectionsPure ==
  [][ (\E c \in Conns : RejectedSubmit(emitted', c) \/ RejectedJoin(emitted', c))
        => UNCHANGED <<gameRooms, sockets, nextRoomId>> ]_vars

\* a connection bound to no room has just been refused by a started room
JoinRefusedUnbound ==
  \E c \in Conns, r \in Rooms :
    /\ emitted = << Ack(c, FALSE, GameAlreadyStarted, NoRoomId, <<>>) >>
    /\ gameRooms[r].started
    /\ sockets[c].open /\ sockets[c].roomId = NoRoomId

\* the reason the claim's order of checks gives for a submission of the
\* trimmed place name by connection c in room, or <<>> when all four pass
FirstFailing(room, c, name) ==
  IF room.players[room.currentPlayerIndex + 1].id # c THEN NotYourTurn
  ELSE IF ~isValidPlace(name) THEN InvalidPlace
  ELSE IF room.letterInPlay # <<>> /\ Lower(name[1]) # Lower(room.letterInPlay[1])
       THEN WrongLetter(room.letterInPlay)
  ELSE IF \E k \in 1..Len(room.history) :
            toLowerCase(room.history[k].place) = toLowerCase(name)
       THEN AlreadyUsed
  ELSE <<>>

\* C6: in every reachable state, for every connection bound to a room and
\* every input, the error submitPlace reports is that of the first failing
\* check in the order not your turn, invalid place, wrong letter, already
\* used, and the submission passes exactly when all four checks pass; an
\* error that has just been reported is the first failing check of an input.
FirstFailingReported ==
  \A c \in Conns :
    resolves(sockets[c], gameRooms) =>
      LET room == gameRooms[sockets[c].roomId]
      IN /\ \A p \in PlaceInputs :
              LET check == submitCheck(room, c, p)
                  reason == FirstFailing(room, c, trim(p))
              IN IF reason = <<>>
                 THEN check = "ok"
                 ELSE check # "ok" /\ errorText(check, room) = reason
         /\ RejectedSubmit(emitted, c) =>
              \E p \in PlaceInputs :
                emitted[1].text = FirstFailing(room, c, trim(p))

\* an invalid place has just been rejected as invalid in a room where every
\* invalid input also starts with the wrong letter
InvalidBeforeWrongLetter ==
  \E r \in Rooms, c \in Conns :
    /\ sockets[c].roomId = r
    /\ emitted = << Error(c, InvalidPlace) >>
    /\ \A p \in PlaceInputs :
         ~isValidPlace(trim(p)) => wrongLetter(gameRooms[r].letterInPlay, trim(p))

\* C7: in a room whose players list has not changed since its first accepted
\* submission, after N accepted submissions currentPlayerIndex = N mod P.
RoundRobin ==
  \A r \in Rooms :
    (~rosterLog[r].changedInPlay /\ gameRooms[r].players # <<>>) =>
      gameRooms[r].currentPlayerIndex
        = Len(gameRooms[r].history) % Len(gameRooms[r].players)

\* two players, two accepted submissions, the turn is back at the first
RoundRobinWrapped ==
  \E r \in Rooms :
    /\ ~rosterLog[r].changedInPlay
    /\ Len(gameRooms[r].players) = 2
    /\ Len(gameRooms[r].history) = 2
    /\ gameRooms[r].started
    /\ gameRooms[r].currentPlayerIndex = 0

\* C8: in every reachable state a room that is not started has an empty
\* history (no submission is accepted before the game is started).
NoPlayBeforeStart ==
  \A r \in Rooms : ~gameRooms[r].started => gameRooms[r].history = <<>>

\* the number of entries of players that belong to connection c
Entries(players, c) == Cardinality({i \in 1..Len(players) : players[i].id = c})

\* C9: once a room is started it stays started, no step adds an entry to its
\* players list, and every joinRoom targeting it is answered with a failed
\* acknowledgement "Game already started".
NoLatecomers ==
  [][ \A r \in Rooms :
        gameRooms[r].started =>
          /\ r \in DOMAIN gameRooms' =>
               /\ gameRooms'[r].started
               /\ Len(gameRooms'[r].players) <= Len(gameRooms[r].players)
               /\ \A c \in Conns :
                    Entries(gameRooms'[r].players, c) <= Entries(gameRooms[r].players, c)
          /\ \A c \in Conns, u \in Usernames :
               joinRoom(c, r, u) =>
                 emitted' = << Ack(c, FALSE, GameAlreadyStarted, NoRoomId, <<>>) >>
    ]_vars

\* a join has just been refused by a started room that still has players
LatecomerRefused ==
  \E c \in Conns, r \in Rooms :
    /\ emitted = << Ack(c, FALSE, GameAlreadyStarted, NoRoomId, <<>>) >>
    /\ gameRooms[r].started
    /\ Entries(gameRooms[r].players, c) = 0
    /\ gameRooms[r].players # <<>>

\* C10: when a disconnect removes a player whose index is not the turn index,
\* the turn index is decremented if the removed index was below it and kept
\* if it was above, and it designates the same player entry as before.
TurnKeptOnOtherRemoval ==
  [][ \A c \in Conns :
        LET r == sockets[c].roomId
        IN (disconnect(c) /\ resolves(sockets[c], gameRooms)) =>
             LET room == gameRooms[r]
                 turn == room.currentPlayerIndex
             IN \A i \in 0..(Len(room.players) - 1) :
                  ( /\ room.players[i + 1].id = c
                    /\ \A j \in 0..(i - 1) : room.players[j + 1].id # c
                    /\ i # turn ) =>
                    /\ r \in DOMAIN gameRooms'
                    /\ gameRooms'[r].currentPlayerIndex
                         = (IF i < turn THEN turn - 1 ELSE turn)
                    /\ gameRooms'[r].players[gameRooms'[r].currentPlayerIndex + 1]
                         = room.players[turn + 1]
    ]_vars

\* a disconnect has just removed a player below the turn index
RemovedBelowTurn ==
  \E r \in Rooms :
    /\ Len(emitted) = 1 /\ emitted[1].event = "playerLeft" /\ emitted[1].to = r
    /\ lastRemoval.playerIndex >= 0
    /\ lastRemoval.playerIndex < lastRemoval.turn
    /\ gameRooms[r].currentPlayerIndex = lastRemoval.turn - 1

\* the entries of players belong to pairwise different connections
DistinctIds(players) ==
  \A i, j \in 1..Len(players) : i # j => players[i].id # players[j].id

\* C11: when a disconnect removes the player at the turn index and other
\* players remain, the turn index afterwards designates the player who
\* followed the removed one in rotation, unless the removed player was at the
\* last index of players (stated for rooms whose players are all different
\* connections).
NextStillNext ==
  [][ \A c \in Conns :
        LET r == sockets[c].roomId
        IN (resolves(sockets[c], gameRooms) /\ disconnect(c)) =>
             LET room == gameRooms[r]
                 turn == room.currentPlayerIndex
                 last == Len(room.players) - 1
             IN ( /\ DistinctIds(room.players)
                  /\ turn >= 0 /\ turn < last
                  /\ room.players[turn + 1].id = c ) =>
                  /\ r \in DOMAIN gameRooms'
                  /\ gameRooms'[r].players[gameRooms'[r].currentPlayerIndex + 1]
                       = room.players[turn + 2]
    ]_vars

\* C12: a room is destroyed exactly when its players list becomes empty: the
\* disconnect of the last remaining player of a room removes the room in that
\* step with no broadcast, every room of the table has at least one player,
\* and a joinRoom naming an identifier that was generated and removed is
\* answered "Room not found".
RoomDestroyedWhenEmpty ==
  [][ /\ \A r \in DOMAIN gameRooms' : gameRooms'[r].players # <<>>
      /\ \A r \in Rooms :
           r \notin DOMAIN gameRooms' => Len(emitted') = 0
      /\ \A c \in Conns, r \in Rooms :
           ( /\ Len(gameRooms[r].players) = 1
             /\ gameRooms[r].players[1].id = c
             /\ disconnect(c) ) =>
             r \notin DOMAIN gameRooms'
      /\ \A c \in Conns, r \in RoomIds, u \in Usernames :
           ( /\ r < nextRoomId
             /\ r \notin Rooms
             /\ joinRoom(c, r, u) ) =>
             /\ emitted' = << Ack(c, FALSE, RoomNotFound, NoRoomId, <<>>) >>
             /\ r \notin DOMAIN gameRooms'
    ]_vars

\* C13: startGame handled for a room that is already started leaves the room
\* (players, scores, history, currentPlayerIndex, letterInPlay, started) as it
\* was and only broadcasts the snapshot again.
StartGameIdempotent ==
  [][ \A c \in Conns :
        LET r == sockets[c].roomId
        IN ( /\ resolves(sockets[c], gameRooms)
             /\ gameRooms[r].started
             /\ startGame(c) ) =>
             /\ gameRooms' = gameRooms
             /\ emitted' = << Broadcast(r, "gameStarted", <<gameRooms[r]>>) >>
    ]_vars

\* C14: in every reachable state the players list of every room is unique by
\* connection: no connection identifier appears in two entries of one room.
PlayersUniqueById == \A r \in Rooms : DistinctIds(gameRooms[r].players)

\* the rooms of the table whose players list has an entry of connection c
RoomsOf(c) == {r \in Rooms : Entries(gameRooms[r].players, c) > 0}

\* C15: in every reachable state every connection appears in the players
\* list of at most one room, and that room is the connection's bound room.
OneMembership ==
  \A c \in Conns : \A r \in RoomsOf(c) : RoomsOf(c) = {r} /\ sockets[c].roomId = r

\* C16: once the disconnect of a connection has been handled, no room of the
\* table has a players entry of that connection.
RemovedOnDisconnect ==
  \A c \in Conns : ~sockets[c].open => RoomsOf(c) = {}

\* C17: a rejected submitPlace emits exactly one error message, to the
\* requesting connection only, and nothing to the room; an accepted
\* submitPlace emits one updateGame broadcast to the room carrying the room as
\* updated, and no error message.  Every step is either routed in this way
\* for connection c or is no submitPlace of c (a submitPlace of c sends the
\* messages of submitEmits, which is looked at first).
SubmitRouted ==
  [][ \A c \in Conns :
        LET r == sockets[c].roomId
        IN ( /\ sockets' = sockets
             /\ lastRemoval' = NoRemoval
             /\ resolves(sockets[c], gameRooms) ) =>
             \/ IF gameRooms'[r].history = gameRooms[r].history
                THEN /\ gameRooms' = gameRooms
                     /\ Len(emitted') = 1
                     /\ emitted'[1].event = "error"
                     /\ emitted'[1].kind = "socket"
                     /\ emitted'[1].to = c
                ELSE emitted' = << Broadcast(r, "updateGame", <<gameRooms'[r]>>) >>
             \/ \A p \in PlaceInputs, t \in Timestamps :
                  ~( /\ emitted' = submitEmits(submitCheck(gameRooms[r], c, p), c, r,
                                               gameRooms[r], gameRooms'[r])
                     /\ submitPlace(c, p, t) )
    ]_vars

\* a submission of one of two players of a room has just been rejected with
\* one error message addressed to that connection
ErrorToRequester ==
  \E r \in Rooms, c \in Conns :
    /\ sockets[c].roomId = r
    /\ Len(gameRooms[r].players) >= 2
    /\ DistinctIds(gameRooms[r].players)
    /\ RejectedSubmit(emitted, c)

\* the sum of the scores of the entries of players
RECURSIVE scoreSum(_)
scoreSum(players) ==
  IF players = <<>> THEN 0 ELSE Head(players).score + scoreSum(Tail(players))

\* C18: every accepted submitPlace appends exactly one history entry and adds
\* 1 to the score of the acting player's entry and to no other; in every
\* state a step reaches, the scores of a room's players sum to at most
\* len(history), and to len(history) if no player was ever removed from it.
ScoreAccounted ==
  [][ /\ \A r \in DOMAIN gameRooms' :
           /\ scoreSum(gameRooms'[r].players) <= Len(gameRooms'[r].history)
           /\ ~rosterLog'[r].removed =>
                scoreSum(gameRooms'[r].players) = Len(gameRooms'[r].history)
      /\ \A c \in Conns :
           LET r == sockets[c].roomId
           IN ( /\ sockets' = sockets
                /\ lastRemoval' = NoRemoval
                /\ resolves(sockets[c], gameRooms)
                /\ gameRooms'[r] # gameRooms[r] ) =>
                \A p \in PlaceInputs, t \in Timestamps :
                  submitPlace(c, p, t) =>
                    LET room == gameRooms[r]
                        turn == room.currentPlayerIndex
                    IN /\ Len(gameRooms'[r].history) = Len(room.history) + 1
                       /\ SubSeq(gameRooms'[r].history, 1, Len(room.history))
                            = room.history
                       /\ room.players[turn + 1].id = c
                       /\ gameRooms'[r].players
                            = [room.players EXCEPT ![turn + 1].score = @ + 1]
    ]_vars

\* the second of two players has just had a place accepted in a room nobody
\* left: two history entries, one point each
ScoresShared ==
  \E r \in Rooms :
    /\ AcceptedSubmit(emitted, r)
    /\ ~rosterLog[r].removed
    /\ Len(gameRooms[r].players) = 2
    /\ DistinctIds(gameRooms[r].players)
    /\ Len(gameRooms[r].history) = 2
    /\ gameRooms[r].players[1].score = 1
    /\ gameRooms[r].players[2].score = 1

\* the connections bound to room r that have an input submitPlace would accept
\* in this state
CanBeAccepted(r) ==
  {c \in Conns :
     /\ sockets[c].roomId = r
     /\ \E p \in PlaceInputs : submitCheck(gameRooms[r], c, p) = "ok"}

\* whatever is pending, the submissions of at most one connection pass the
\* checks of submitPlace against one state of a room
OnePassesPerState == \A r \in Rooms : Cardinality(CanBeAccepted(r)) <= 1

\* a step never shortens a history, and a step that appends to it appends one
\* place that passes the letter check and the duplicate check against the
\* room as the step found it, and advances the turn the step found
ValidatedAgainstCurrent ==
  [][ \A r \in Rooms :
        r \in DOMAIN gameRooms' =>
          LET before == gameRooms[r]
              after == gameRooms'[r]
              place == after.history[Len(after.history)].place
          IN /\ Len(after.history) >= Len(before.history)
             /\ Len(after.history) > Len(before.history) =>
                  /\ Len(after.history) = Len(before.history) + 1
                  /\ SubSeq(after.history, 1, Len(before.history)) = before.history
                  /\ before.letterInPlay # <<>> =>
                       Lower(place[1]) = Lower(before.letterInPlay[1])
                  /\ \A k \in 1..Len(before.history) :
                       toLowerCase(before.history[k].place) # toLowerCase(place)
                  /\ after.currentPlayerIndex
                       = (before.currentPlayerIndex + 1) % Len(before.players)
    ]_vars

\* C19: handlers run one at a time against the room table: of two submitPlace
\* events of two different connections pending for one room, in either order
\* the second is validated against the currentPlayerIndex, letterInPlay and
\* history the first left, and the two are never both accepted for one turn
\* (one value of len(history)).
OneAcceptedPerTurn == []OnePassesPerState /\ ValidatedAgainstCurrent

\* the second of two players has just been refused for the letter that the
\* place accepted from the first left in play
SecondSeesFirst ==
  \E r \in Rooms, c \in Conns :
    /\ sockets[c].roomId = r
    /\ Len(gameRooms[r].players) = 2
    /\ DistinctIds(gameRooms[r].players)
    /\ gameRooms[r].players[2].id = c
    /\ gameRooms[r].currentPlayerIndex = 1
    /\ Len(gameRooms[r].history) = 1
    /\ gameRooms[r].letterInPlay # <<>>
    /\ emitted = << Error(c, WrongLetter(gameRooms[r].letterInPlay)) >>

\* C20: in every reachable state, for every room of the table, the connection
\* of players[currentPlayerIndex] is connected and has that room as its bound
\* room, so its submission gets past the check of the turn.
CurrentPlayerBound ==
  \A r \in Rooms :
    LET room == gameRooms[r]
    IN /\ room.currentPlayerIndex >= 0
       /\ room.currentPlayerIndex < Len(room.players)
       /\ LET c == room.players[room.currentPlayerIndex + 1].id
          IN sockets[c].open /\ sockets[c].roomId = r
====
